---- MODULE Spec2Model ----
(***************************************************************************)
(* Model of src/pretalx/api/versions.py: the version catalog, the          *)
(* process-wide SERIALIZER_REGISTRY, the register_serializer decorator     *)
(* factory with its closure cells (nonlocal class_name, versions), the     *)
(* exact-match lookup get_serializer_by_version and the version resolver   *)
(* get_api_version_from_request.                                           *)
(*                                                                         *)
(* Python values are encoded with one record shape per kind of value so    *)
(* that values of different Python types stay comparable:                  *)
(*   a `versions` argument is [type, str, list] with type one of           *)
(*   "NoneType", "str", "list"; a `class_name` argument is [type, str].    *)
(***************************************************************************)
EXTENDS Integers, Sequences, FiniteSets, TLC

VARIABLES
    SUPPORTED_VERSIONS,   \* module global, versions.py line 11 (a list)
    SERIALIZER_REGISTRY,  \* module global, versions.py line 17 (a dict)
    closures,             \* decorator objects returned by register_serializer
    history,              \* log of the applications of inner_decorator
    call                  \* the last call made and what it returned / raised

vars == <<SUPPORTED_VERSIONS, SERIALIZER_REGISTRY, closures, history, call>>

-----------------------------------------------------------------------------
(* Bounds of the model *)

MaxDecorators == 2
MaxApply == 2

-----------------------------------------------------------------------------
(* The version catalog, versions.py lines 1-15 *)

LEGACY == "LEGACY"
CURRENT_VERSION == LEGACY
DEV_PREVIEW == "DEV_PREVIEW"

DEPRECATED_VERSIONS == << >>
CURRENT_VERSIONS == <<LEGACY, CURRENT_VERSION, DEV_PREVIEW>>
UNSUPPORTED_VERSIONS == << >>

\* The elements of a Python list, as a set.
Elems(list) == {list[i] : i \in 1..Len(list)}

-----------------------------------------------------------------------------
(* Python values *)

None == [type |-> "NoneType", str |-> "", list |-> << >>]
Str(s) == [type |-> "str", str |-> s, list |-> << >>]
List(l) == [type |-> "list", str |-> "", list |-> l]

NoName == [type |-> "NoneType", str |-> ""]
Name(s) == [type |-> "str", str |-> s]

\* bool(v) for None, a str and a list: None, "" and [] are falsy.
Truthy(v) ==
    CASE v.type = "NoneType" -> FALSE
      [] v.type = "str" -> v.str # ""
      [] v.type = "list" -> v.list # << >>

\* Iterating a str yields its characters, one str each.
Chars(s) ==
    CASE s = "" -> << >>
      [] s = "LEGACY" -> <<"L", "E", "G", "A", "C", "Y">>
      [] s = "DEV_PREVIEW" -> <<"D", "E", "V", "_", "P", "R", "E", "V", "I", "E", "W">>
      [] s = "DEV_PREVIEW2" -> <<"D", "E", "V", "_", "P", "R", "E", "V", "I", "E", "W", "2">>
      [] OTHER -> <<s>>

\* What `for version in v` iterates over.
Iter(v) ==
    CASE v.type = "str" -> Chars(v.str)
      [] v.type = "list" -> v.list
      [] OTHER -> << >>

-----------------------------------------------------------------------------
(* Inputs *)

\* A version identifier that is in no list of the catalog.
DEV_PREVIEW2 == "DEV_PREVIEW2"

\* Serializer classes and their __name__.
Classes == {"X", "Y"}

cls_name(cls) ==
    CASE cls = "X" -> "TalkSerializer"
      [] cls = "Y" -> "SubmissionSerializer"

VersionArgs ==
    { None, Str(DEV_PREVIEW2), List(<<LEGACY, DEV_PREVIEW2>>), List(<< >>) }

ClassNameArgs == { NoName, Name("Talk") }

LookupNames == {"Talk", "TalkSerializer", "SubmissionSerializer"}
LookupVersions == {LEGACY, DEV_PREVIEW, DEV_PREVIEW2}

\* Requests: one without a version token, one asking for a version.
Requests == { [version |-> ""], [version |-> DEV_PREVIEW2] }

-----------------------------------------------------------------------------
(* register_serializer.inner_decorator, versions.py lines 26-35 *)

\* Variant: the default is the current version alone.
inner_versions_current_only(versions, supported) ==
    IF ~Truthy(versions) THEN List(<<CURRENT_VERSION>>)
    ELSE IF versions.type = "str" THEN List(<<versions.str>>)
    ELSE versions

\* Variant: no isinstance(versions, str) branch, a str is iterated as it is.
inner_versions_no_str(versions, supported) ==
    IF ~Truthy(versions) THEN List(supported)
    ELSE versions

\* Variant: explicit versions are validated against the catalog.
inner_versions_validated(versions, supported) ==
    IF ~Truthy(versions) THEN List(supported)
    ELSE IF versions.type = "str"
         THEN List(SelectSeq(<<versions.str>>, LAMBDA v : v \in Elems(supported)))
    ELSE List(SelectSeq(versions.list, LAMBDA v : v \in Elems(supported)))

\* Lines 28-31: the new value of the closure cell `versions`.
inner_versions(versions, supported) ==
    IF ~Truthy(versions) THEN List(supported)
    ELSE IF versions.type = "str" THEN List(<<versions.str>>)
    ELSE versions

\* Line 32: class_name = class_name or cls.__name__
inner_class_name(class_name, cls) ==
    IF class_name.type = "str" /\ class_name.str # ""
    THEN class_name
    ELSE Name(cls_name(cls))

\* Variant: SERIALIZER_REGISTRY.setdefault((class_name, version), cls)
registry_setdefault(registry, key, cls) ==
    [k \in DOMAIN registry \cup {key} |->
        IF k \in DOMAIN registry THEN registry[k] ELSE cls]

\* Line 34: SERIALIZER_REGISTRY[class_name, version] = cls
registry_setitem(registry, key, cls) ==
    [k \in DOMAIN registry \cup {key} |-> IF k = key THEN cls ELSE registry[k]]

\* Variant: `return cls` inside the loop, only the first version is written.
register_all_first(registry, class_name, versions, cls) ==
    IF versions = << >> THEN registry
    ELSE registry_setitem(registry, <<class_name, Head(versions)>>, cls)

\* Lines 33-34: the loop over the versions, in order.
RECURSIVE register_all(_, _, _, _)
register_all(registry, class_name, versions, cls) ==
    IF versions = << >> THEN registry
    ELSE register_all(registry_setitem(registry, <<class_name, Head(versions)>>, cls),
                      class_name, Tail(versions), cls)

-----------------------------------------------------------------------------
(* Lookup and resolution, versions.py lines 40-48 *)

KeyError == [raised |-> "KeyError", value |-> ""]
Returned(v) == [raised |-> "", value |-> v]

\* Variant: falls back to another version registered for the same name.
get_serializer_by_version_fallback(registry, name, version) ==
    IF <<name, version>> \in DOMAIN registry
    THEN Returned(registry[<<name, version>>])
    ELSE IF \E k \in DOMAIN registry : k[1] = name
         THEN Returned(registry[CHOOSE k \in DOMAIN registry : k[1] = name])
    ELSE KeyError

\* Line 41: SERIALIZER_REGISTRY[name, version]
get_serializer_by_version(registry, name, version) ==
    IF <<name, version>> \in DOMAIN registry
    THEN Returned(registry[<<name, version>>])
    ELSE KeyError

\* Variant: the version token of the request is used when there is one.
get_api_version_from_request_token(request) ==
    IF request.version # "" THEN request.version ELSE LEGACY

\* Variant: the latest version is applied instead of the legacy one.
get_api_version_from_request_latest(request) == DEV_PREVIEW

\* Line 48: return LEGACY
get_api_version_from_request(request) == LEGACY

-----------------------------------------------------------------------------
(* State machine *)

NoCall ==
    [op |-> "", d |-> 0, cls |-> "", name |-> "", version |-> "",
     request |-> [version |-> ""], raised |-> "", value |-> ""]

Init ==
    /\ SUPPORTED_VERSIONS = CURRENT_VERSIONS \o DEPRECATED_VERSIONS
    /\ SERIALIZER_REGISTRY = << >>
    /\ closures = << >>
    /\ history = << >>
    /\ call = NoCall

\* Every decorator object built so far has been applied at least once.
\* Building a decorator has no effect on anything else, so decorator objects
\* are numbered in the order of their first application: a run that builds
\* one earlier is the same run up to the numbering.
AllApplied == \A d \in 1..Len(closures) : \E i \in 1..Len(history) : history[i].d = d

\* register_serializer(versions, class_name): builds the closure, lines 25, 37.
\* versions0 / class_name0 keep the arguments as passed; versions / class_name
\* are the cells inner_decorator rebinds through `nonlocal`.
RegisterSerializer(versions, class_name) ==
    /\ Len(closures) < MaxDecorators
    /\ AllApplied
    /\ closures' = Append(closures,
           [versions0 |-> versions, class_name0 |-> class_name,
            versions |-> versions, class_name |-> class_name])
    /\ call' = [NoCall EXCEPT !.op = "register_serializer",
                              !.d = Len(closures) + 1]
    /\ UNCHANGED <<SUPPORTED_VERSIONS, SERIALIZER_REGISTRY, history>>

\* inner_decorator(cls) of decorator object d, lines 26-35.
InnerDecorator(d, cls) ==
    /\ Len(history) < MaxApply
    /\ LET versions == inner_versions(closures[d].versions, SUPPORTED_VERSIONS)
           class_name == inner_class_name(closures[d].class_name, cls)
       IN /\ closures' = [closures EXCEPT ![d].versions = versions,
                                          ![d].class_name = class_name]
          /\ SERIALIZER_REGISTRY' =
                 register_all(SERIALIZER_REGISTRY, class_name.str, Iter(versions), cls)
          /\ history' = Append(history,
                 [d |-> d, cls |-> cls, name |-> class_name.str,
                  versions |-> Iter(versions)])
          /\ call' = [NoCall EXCEPT !.op = "inner_decorator", !.d = d,
                                    !.cls = cls, !.value = cls]
    /\ UNCHANGED SUPPORTED_VERSIONS

\* Variant: SERIALIZER_REGISTRY.pop((name, version)), the lookup consumes the entry.
GetSerializerByVersionPop(name, version) ==
    /\ LET r == get_serializer_by_version(SERIALIZER_REGISTRY, name, version)
       IN call' = [NoCall EXCEPT !.op = "get_serializer_by_version",
                                 !.name = name, !.version = version,
                                 !.raised = r.raised, !.value = r.value]
    /\ SERIALIZER_REGISTRY' =
           [k \in DOMAIN SERIALIZER_REGISTRY \ {<<name, version>>} |->
               SERIALIZER_REGISTRY[k]]
    /\ UNCHANGED <<SUPPORTED_VERSIONS, closures, history>>

\* get_serializer_by_version(name, version), lines 40-41.
GetSerializerByVersion(name, version) ==
    /\ LET r == get_serializer_by_version(SERIALIZER_REGISTRY, name, version)
       IN call' = [NoCall EXCEPT !.op = "get_serializer_by_version",
                                 !.name = name, !.version = version,
                                 !.raised = r.raised, !.value = r.value]
    /\ UNCHANGED <<SUPPORTED_VERSIONS, SERIALIZER_REGISTRY, closures, history>>

\* get_api_version_from_request(request), lines 44-48.
GetApiVersionFromRequest(request) ==
    /\ call' = [NoCall EXCEPT !.op = "get_api_version_from_request",
                              !.request = request,
                              !.value = get_api_version_from_request(request)]
    /\ UNCHANGED <<SUPPORTED_VERSIONS, SERIALIZER_REGISTRY, closures, history>>

\* get_serializer_by_version(name, get_api_version_from_request(request)).
Dispatch(name, request) ==
    /\ LET version == get_api_version_from_request(request)
           r == get_serializer_by_version(SERIALIZER_REGISTRY, name, version)
       IN call' = [NoCall EXCEPT !.op = "dispatch",
                                 !.name = name, !.request = request,
                                 !.version = version,
                                 !.raised = r.raised, !.value = r.value]
    /\ UNCHANGED <<SUPPORTED_VERSIONS, SERIALIZER_REGISTRY, closures, history>>

Next ==
    \/ \E versions \in VersionArgs, class_name \in ClassNameArgs :
           RegisterSerializer(versions, class_name)
    \/ \E d \in 1..Len(closures), cls \in Classes : InnerDecorator(d, cls)
    \/ \E name \in LookupNames, version \in LookupVersions :
           GetSerializerByVersion(name, version)
    \/ \E request \in Requests : GetApiVersionFromRequest(request)
    \/ \E name \in LookupNames, request \in Requests : Dispatch(name, request)

Spec == Init /\ [][Next]_vars

-----------------------------------------------------------------------------
(* Vocabulary of the properties *)

\* The versions an explicitly passed `versions` argument names.
ExplicitSet(v) == IF v.type = "str" THEN {v.str} ELSE Elems(v.list)

\* The arguments decorator object d was built with.
Versions0(i) == closures[history[i].d].versions0
ClassName0(i) == closures[history[i].d].class_name0

\* The i-th application of a decorator wrote key k.
WroteKey(i, k) == k[1] = history[i].name /\ k[2] \in Elems(history[i].versions)

Writers(k) == {i \in 1..Len(history) : WroteKey(i, k)}
LastWriter(k) == CHOOSE i \in Writers(k) : \A j \in Writers(k) : j <= i

Supported == Elems(SUPPORTED_VERSIONS)

Lookup(name, version) == get_serializer_by_version(SERIALIZER_REGISTRY, name, version)

Applied == call.op = "inner_decorator"

-----------------------------------------------------------------------------
(* C1 *)

\* C1: after a registration of X under name T made with no version argument,
\* the lookup of (T, V) returns X for every V of SUPPORTED_VERSIONS unless a
\* later registration wrote (T, V); when every registration so far was made
\* with no version argument, no lookup of DEV_PREVIEW2 succeeds.
C1_DefaultVersionsRegistered ==
    /\ \A i \in 1..Len(history) :
           Versions0(i) = None =>
               \A V \in Supported :
                   (\A j \in (i + 1)..Len(history) : ~WroteKey(j, <<history[i].name, V>>))
                       => Lookup(history[i].name, V) = Returned(history[i].cls)
    /\ (\A i \in 1..Len(history) : Versions0(i) = None) =>
           \A T \in LookupNames : Lookup(T, DEV_PREVIEW2) = KeyError

C1_Witness ==
    /\ call.op = "get_serializer_by_version"
    /\ call.version = DEV_PREVIEW
    /\ call.raised = ""
    /\ \E i \in 1..Len(history) :
           /\ Versions0(i) = None
           /\ history[i].name = call.name
           /\ history[i].cls = call.value

-----------------------------------------------------------------------------
(* C2 *)

\* C2: a lookup returns the binding of the most recent registration that
\* wrote the key, and applying a decorator never raises: it returns cls.
C2_LastRegistrationWins ==
    /\ \A k \in (LookupNames \X LookupVersions) \cup DOMAIN SERIALIZER_REGISTRY :
           Writers(k) # {} => Lookup(k[1], k[2]) = Returned(history[LastWriter(k)].cls)
    /\ Applied => call.raised = "" /\ call.value = call.cls

C2_Witness ==
    \E k \in DOMAIN SERIALIZER_REGISTRY :
        \E i, j \in Writers(k) :
            /\ i < j
            /\ j = LastWriter(k)
            /\ history[i].cls # history[j].cls
            /\ SERIALIZER_REGISTRY[k] = history[j].cls

-----------------------------------------------------------------------------
(* C3 *)

\* C3: the lookup of a pair no registration has written raises KeyError, with
\* no fallback to another version of the name or another name of the version,
\* and a lookup that raised leaves SERIALIZER_REGISTRY unchanged.
C3_UnregisteredRaises ==
    /\ [](\A T \in LookupNames, V \in LookupVersions :
              Writers(<<T, V>>) = {} => Lookup(T, V) = KeyError)
    /\ [](call.op = "get_serializer_by_version" /\ Writers(<<call.name, call.version>>) = {}
              => call.raised = "KeyError")
    /\ [][call'.op = "get_serializer_by_version" /\ call'.raised = "KeyError"
              => SERIALIZER_REGISTRY' = SERIALIZER_REGISTRY]_vars

C3_Witness ==
    /\ call.op = "get_serializer_by_version"
    /\ call.raised = "KeyError"
    /\ \E k \in DOMAIN SERIALIZER_REGISTRY : k[1] = call.name /\ k[2] # call.version
    /\ \E k \in DOMAIN SERIALIZER_REGISTRY : k[1] # call.name /\ k[2] = call.version

-----------------------------------------------------------------------------
(* C4 *)

\* C4: get_api_version_from_request returns LEGACY for every request, raises
\* nothing, and the value is in SUPPORTED_VERSIONS and not in
\* UNSUPPORTED_VERSIONS.
C4_ResolverReturnsLegacy ==
    call.op = "get_api_version_from_request" =>
        /\ call.raised = ""
        /\ call.value = LEGACY
        /\ call.value \in Supported
        /\ call.value \notin Elems(UNSUPPORTED_VERSIONS)

C4_Witness ==
    /\ call.op = "get_api_version_from_request"
    /\ call.request.version = DEV_PREVIEW2
    /\ call.value = LEGACY
    /\ SERIALIZER_REGISTRY # << >>

-----------------------------------------------------------------------------
(* C5 *)

\* C5: dispatch gives the outcome of the direct lookup of (T, LEGACY) in the
\* registry it was called on, whatever the request, and changes nothing.
C5_DispatchIsLegacyLookup ==
    [][call'.op = "dispatch" =>
          /\ [raised |-> call'.raised, value |-> call'.value]
                 = get_serializer_by_version(SERIALIZER_REGISTRY, call'.name, LEGACY)
          /\ UNCHANGED <<SUPPORTED_VERSIONS, SERIALIZER_REGISTRY, closures, history>>]_vars

C5_Witness ==
    /\ call.op = "dispatch"
    /\ call.request.version = DEV_PREVIEW2
    /\ call.raised = "KeyError"
    /\ <<call.name, DEV_PREVIEW2>> \in DOMAIN SERIALIZER_REGISTRY

-----------------------------------------------------------------------------
(* C6 *)

\* C6 as stated: a lookup with a version outside SUPPORTED_VERSIONS never
\* succeeds.
C6_UnsupportedNeverSucceeds ==
    \A T \in LookupNames, V \in LookupVersions :
        V \notin Supported => Lookup(T, V) = KeyError

\* C6 amended: a lookup with a version V outside SUPPORTED_VERSIONS succeeds
\* only if a registration under that name was given an explicit version
\* argument naming V; registrations without explicit versions and
\* UNSUPPORTED_VERSIONS never make such a lookup succeed.
C6_UnsupportedOnlyIfExplicit ==
    \A k \in DOMAIN SERIALIZER_REGISTRY :
        k[2] \notin Supported =>
            \E i \in 1..Len(history) :
                /\ history[i].name = k[1]
                /\ Truthy(Versions0(i))
                /\ k[2] \in ExplicitSet(Versions0(i))

C6_Witness ==
    /\ call.op = "get_serializer_by_version"
    /\ call.version \notin Supported
    /\ call.raised = ""
    /\ \E i \in 1..Len(history) : Versions0(i) = None /\ history[i].name = call.name

-----------------------------------------------------------------------------
(* C7 *)

\* C7: a registration with explicit versions completes without error and
\* writes (name, V) -> X also for every V that is not in SUPPORTED_VERSIONS.
C7_ExplicitUnsupportedWritten ==
    /\ \A i \in 1..Len(history) :
           Truthy(Versions0(i)) =>
               \A V \in ExplicitSet(Versions0(i)) \ Supported :
                   /\ <<history[i].name, V>> \in DOMAIN SERIALIZER_REGISTRY
                   /\ (\A j \in (i + 1)..Len(history) : ~WroteKey(j, <<history[i].name, V>>))
                          => SERIALIZER_REGISTRY[<<history[i].name, V>>] = history[i].cls
    /\ Applied => call.raised = "" /\ call.value = call.cls

C7_Witness ==
    /\ Applied
    /\ closures[call.d].versions0 = List(<<LEGACY, DEV_PREVIEW2>>)
    /\ \E k \in DOMAIN SERIALIZER_REGISTRY :
           k[2] = DEV_PREVIEW2 /\ SERIALIZER_REGISTRY[k] = call.cls

-----------------------------------------------------------------------------
(* C8 *)

\* C8: right after an application made without an explicit class_name, the
\* lookup of (cls.__name__, V) returns cls for every version V it registered.
C8_DerivedNameIsClassName ==
    (Applied /\ closures[call.d].class_name0 = NoName) =>
        \A V \in Elems(history[Len(history)].versions) :
            Lookup(cls_name(call.cls), V) = Returned(call.cls)

-----------------------------------------------------------------------------
(* C9 *)

\* The registry after writing cls under every key of `keys`.
Overwritten(registry, keys, cls) ==
    [k \in DOMAIN registry \cup keys |-> IF k \in keys THEN cls ELSE registry[k]]

\* The application that has just been made wrote exactly name x S.
WritesExactly(S) ==
    SERIALIZER_REGISTRY' =
        Overwritten(SERIALIZER_REGISTRY,
                    {<<history'[Len(history')].name, v>> : v \in S}, call'.cls)

AppliedNow == call'.op = "inner_decorator" /\ Len(history') = Len(history) + 1

\* C9 as stated: whenever a version argument was passed (a list or a str),
\* the application writes exactly the keys (name, v) for v in that argument.
C9_ExplicitWritesExactly ==
    [][(AppliedNow /\ closures[call'.d].versions0.type # "NoneType")
          => WritesExactly(ExplicitSet(closures[call'.d].versions0))]_vars

\* C9 amended: the same for a non-empty version argument; an empty list or an
\* empty str counts as no argument (the SUPPORTED_VERSIONS are registered).
C9_NonEmptyWritesExactly ==
    [][AppliedNow =>
          IF Truthy(closures[call'.d].versions0)
          THEN WritesExactly(ExplicitSet(closures[call'.d].versions0))
          ELSE closures[call'.d].versions0.type # "NoneType" => WritesExactly(Supported)]_vars

C9_Witness ==
    /\ Applied
    /\ closures[call.d].versions0 = Str(DEV_PREVIEW2)
    /\ DOMAIN SERIALIZER_REGISTRY = {<<history[Len(history)].name, DEV_PREVIEW2>>}

-----------------------------------------------------------------------------
(* C10 *)

\* C10: no step removes a key of SERIALIZER_REGISTRY, a lookup that succeeded
\* keeps succeeding, and lookups, version resolution and dispatch change
\* neither the registry nor the catalog.
C10_RegistryOnlyGrows ==
    [][/\ DOMAIN SERIALIZER_REGISTRY \subseteq DOMAIN SERIALIZER_REGISTRY'
       /\ \A T \in LookupNames, V \in LookupVersions :
              Lookup(T, V).raised = ""
                  => get_serializer_by_version(SERIALIZER_REGISTRY', T, V).raised = ""
       /\ call'.op \in {"get_serializer_by_version", "get_api_version_from_request",
                        "dispatch"}
              => UNCHANGED <<SUPPORTED_VERSIONS, SERIALIZER_REGISTRY>>]_vars

C10_Witness ==
    /\ call.op = "get_serializer_by_version"
    /\ call.raised = ""
    /\ Len(history) >= 2
    /\ history[1].cls # history[2].cls

====
